---- MODULE Spec2Model ----
(***************************************************************************)
(* A model of lockbox/records.py: the construction of one BAI lockbox      *)
(* record from a line of text.  LockboxBaseRecord.__init__ checks the      *)
(* length, adds record_type to the class-level schema, runs _parse (slice  *)
(* and character-class check of every field), then the kind's validate     *)
(* hook, then exposes every field that validate left unset.                *)
(*                                                                         *)
(* Text is a sequence of one-character strings.  Python values are tagged  *)
(* records: StrV, IntV, FloatV, DateV, TimeV and NoneV.  The dict          *)
(* iteration order is insertion order (CPython 3.7 and later).             *)
(***************************************************************************)
EXTENDS Integers, Sequences, FiniteSets, TLC

VARIABLES
  fields,           \* the class attribute 'fields' of every kind that has one
  pc,               \* where the running __init__ is
  kind,             \* the class being constructed
  arg,              \* the raw_record_text argument of __init__
  raw_record_text,  \* self.raw_record_text
  attrs,            \* the attributes set on self by _parse, validate, __init__
  exc,              \* the exception __init__ raised, NoExc if none
  runs,             \* constructions started so far
  first             \* outcome of the first construction of each (kind, line)

vars ==
  <<fields, pc, kind, arg, raw_record_text, attrs, exc, runs, first>>

(***************************************************************************)
(* Bounds of the model.                                                    *)
(***************************************************************************)
\* lines are at most MAX_RECORD_LENGTH + MaxOver characters long
MaxOver == 1

\* constructions in one behaviour of SpecSeq
MaxRuns == 2

(***************************************************************************)
(* Characters and text.                                                    *)
(***************************************************************************)
Digits == <<"0", "1", "2", "3", "4", "5", "6", "7", "8", "9">>

DigitSet == {Digits[i] : i \in 1..10}

UpperSet ==
  {"A", "B", "C", "D", "E", "F", "G", "H", "I", "J", "K", "L", "M",
   "N", "O", "P", "Q", "R", "S", "T", "U", "V", "W", "X", "Y", "Z"}

\* the characters str.strip() removes and \s matches
Whitespace == {" ", "\t", "\n", "\r"}

DigitVal(c) == (CHOOSE i \in 1..10 : Digits[i] = c) - 1

Min(a, b) == IF a < b THEN a ELSE b

\* Python's s[a:b] for 0 <= a <= b
Slice(s, a, b) == SubSeq(s, a + 1, Min(b, Len(s)))

RECURSIVE LStrip(_)
LStrip(s) ==
  IF s # <<>> /\ Head(s) \in Whitespace THEN LStrip(Tail(s)) ELSE s

RECURSIVE RStrip(_)
RStrip(s) ==
  IF s # <<>> /\ s[Len(s)] \in Whitespace
  THEN RStrip(SubSeq(s, 1, Len(s) - 1))
  ELSE s

\* str.strip()
Strip(s) == RStrip(LStrip(s))

AllIn(s, set) == \A i \in 1..Len(s) : s[i] \in set

\* str.isnumeric() on the characters a record can hold
IsNumeric(s) == s # <<>> /\ AllIn(s, DigitSet)

RECURSIVE DigitsValue(_)
DigitsValue(s) ==
  IF s = <<>> THEN 0
  ELSE 10 * DigitsValue(SubSeq(s, 1, Len(s) - 1)) + DigitVal(s[Len(s)])

RECURSIVE DropUnderscores(_)
DropUnderscores(s) ==
  IF s = <<>> THEN <<>>
  ELSE IF Head(s) = "_" THEN DropUnderscores(Tail(s))
  ELSE <<Head(s)>> \o DropUnderscores(Tail(s))

\* digits, with single underscores allowed between digits (PEP 515)
IsDigitGroup(s) ==
  /\ s # <<>>
  /\ AllIn(s, DigitSet \cup {"_"})
  /\ s[1] # "_"
  /\ s[Len(s)] # "_"
  /\ \A i \in 1..(Len(s) - 1) : ~(s[i] = "_" /\ s[i + 1] = "_")

\* int(s): surrounding whitespace is ignored, then an optional sign and a
\* digit group; anything else raises ValueError
PyInt(s) ==
  LET t == Strip(s)
      signed == t # <<>> /\ Head(t) \in {"+", "-"}
      body == IF signed THEN Tail(t) ELSE t
  IN IF IsDigitGroup(body)
     THEN [ok |-> TRUE,
           n |-> IF signed /\ Head(t) = "-"
                 THEN 0 - DigitsValue(DropUnderscores(body))
                 ELSE DigitsValue(DropUnderscores(body))]
     ELSE [ok |-> FALSE, n |-> 0]

(***************************************************************************)
(* Python values.                                                          *)
(***************************************************************************)
StrV(s) == [t |-> "str", s |-> s]

IntV(n) == [t |-> "int", n |-> n]

\* the float n / 100.0, kept as the integer count of hundredths
FloatV(n) == [t |-> "float", hundredths |-> n]

DateV(y, m, d) == [t |-> "date", year |-> y, month |-> m, day |-> d]

TimeV(h, m) == [t |-> "time", hour |-> h, minute |-> m]

NoneV == [t |-> "None"]

NoExc == [type |-> "none", what |-> "", field |-> ""]

Raise(type, what, field) == [type |-> type, what |-> what, field |-> field]

\* the attributes of self and the exception a step leaves, NoExc if none
Result(a, e) == [attrs |-> a, exc |-> e]

(***************************************************************************)
(* LockboxFieldType and the patterns of _parse.                            *)
(***************************************************************************)
Numeric == "numeric"

Alphanumeric == "alphanumeric"

Blank == "blank"

AlphanumericOrBlank == "alphanumericorblank"

FieldTypes == {Numeric, Alphanumeric, Blank, AlphanumericOrBlank}

\* [ A-Z0-9;:,'./()-]
AlphanumericChars ==
  {" "} \cup UpperSet \cup DigitSet
        \cup {";", ":", ",", "'", ".", "/", "(", ")", "-"}

\* [ A-Z0-9;%#:',./_&()-]
AlphanumericOrBlankChars ==
  {" "} \cup UpperSet \cup DigitSet
        \cup {";", "%", "#", ":", "'", ",", ".", "/", "_", "&", "(", ")", "-"}

\* patt.match(s) for the pattern _parse compiles for the type; s is the
\* stripped slice
Matches(type, s) ==
  CASE type = Alphanumeric -> s # <<>> /\ AllIn(s, AlphanumericChars)
    [] type = Numeric -> s # <<>> /\ AllIn(s, DigitSet)
    [] type = Blank -> AllIn(s, Whitespace)
    [] type = AlphanumericOrBlank ->
         s = <<>> \/ AllIn(s, AlphanumericOrBlankChars)
    [] OTHER -> FALSE

MAX_RECORD_LENGTH == 160

(***************************************************************************)
(* The record kinds and their class-level schema literals, in the order    *)
(* the source writes the keys.                                             *)
(***************************************************************************)
FieldDef(name, start, end, type) ==
  [name |-> name, start |-> start, end |-> end, type |-> type]

LockboxImmediateAddressHeader ==
  << FieldDef("priority_code", 1, 3, Numeric),
     FieldDef("destination_id", 3, 13, Alphanumeric),
     FieldDef("originating_trn", 13, 23, Numeric),
     FieldDef("processing_date", 23, 29, Numeric),
     FieldDef("processing_time", 29, 33, Numeric),
     FieldDef("filler", 33, 104, AlphanumericOrBlank) >>

LockboxServiceRecord ==
  << FieldDef("destination", 1, 11, AlphanumericOrBlank),
     FieldDef("bank_origin", 11, 21, AlphanumericOrBlank),
     FieldDef("reference_code", 21, 31, AlphanumericOrBlank),
     FieldDef("service_code", 31, 34, AlphanumericOrBlank),
     FieldDef("record_length", 34, 37, AlphanumericOrBlank),
     FieldDef("characters_per_block", 37, 41, AlphanumericOrBlank),
     FieldDef("partial_compression", 41, 42, AlphanumericOrBlank),
     FieldDef("filler", 42, 81, Blank) >>

LockboxDetailHeader ==
  << FieldDef("batch_number", 1, 4, AlphanumericOrBlank),
     FieldDef("item_number", 4, 7, AlphanumericOrBlank),
     FieldDef("lockbox_number", 7, 14, AlphanumericOrBlank),
     FieldDef("deposit_date", 14, 20, AlphanumericOrBlank),
     FieldDef("destination", 20, 30, AlphanumericOrBlank),
     FieldDef("destination", 30, 40, AlphanumericOrBlank),
     FieldDef("filler", 40, 104, AlphanumericOrBlank) >>

LockboxDetailRecord ==
  << FieldDef("batch_number", 1, 4, AlphanumericOrBlank),
     FieldDef("item_number", 4, 7, AlphanumericOrBlank),
     FieldDef("check_amount", 7, 17, AlphanumericOrBlank),
     FieldDef("transit_routing_number", 17, 26, AlphanumericOrBlank),
     FieldDef("dd_account_number", 26, 40, AlphanumericOrBlank),
     FieldDef("check_number", 40, 50, AlphanumericOrBlank),
     FieldDef("filler", 50, 77, AlphanumericOrBlank) >>

LockboxDetailOverflowRecord ==
  << FieldDef("batch_number", 1, 4, AlphanumericOrBlank),
     FieldDef("item_number", 4, 7, AlphanumericOrBlank),
     FieldDef("overflow_record_type", 7, 8, AlphanumericOrBlank),
     FieldDef("overflow_sequence_number", 8, 10, AlphanumericOrBlank),
     FieldDef("overflow_code", 10, 11, AlphanumericOrBlank),
     FieldDef("memo_line", 11, 80, AlphanumericOrBlank) >>

LockboxBatchTotalRecord ==
  << FieldDef("batch_number", 1, 4, AlphanumericOrBlank),
     FieldDef("item_number", 4, 7, AlphanumericOrBlank),
     FieldDef("lockbox_number", 7, 14, AlphanumericOrBlank),
     FieldDef("deposit_date", 14, 20, AlphanumericOrBlank),
     FieldDef("total_number_remittances", 20, 23, AlphanumericOrBlank),
     FieldDef("check_dollar_total", 23, 33, Numeric),
     FieldDef("filler", 33, 81, AlphanumericOrBlank) >>

LockboxServiceTotalRecord ==
  << FieldDef("batch_number", 1, 4, Numeric),
     FieldDef("item_number", 4, 7, Numeric),
     FieldDef("lockbox_number", 7, 14, AlphanumericOrBlank),
     FieldDef("deposit_date", 14, 20, Numeric),
     FieldDef("total_num_checks", 20, 24, Numeric),
     FieldDef("check_dollar_total", 24, 34, Numeric),
     FieldDef("last_record_indicator", 34, 35, AlphanumericOrBlank),
     FieldDef("filler", 35, 104, AlphanumericOrBlank) >>

LockboxDestinationTrailerRecord ==
  << FieldDef("total_num_records", 1, 7, Numeric),
     FieldDef("filler", 7, 80, Blank) >>

\* the record kinds that declare a schema
SchemaKinds ==
  {"LockboxImmediateAddressHeader", "LockboxServiceRecord",
   "LockboxDetailHeader", "LockboxDetailRecord",
   "LockboxDetailOverflowRecord", "LockboxBatchTotalRecord",
   "LockboxServiceTotalRecord", "LockboxDestinationTrailerRecord"}

\* LockboxBaseRecord itself has no 'fields' attribute
Kinds == SchemaKinds \cup {"LockboxBaseRecord"}

FieldsLiteral(k) ==
  CASE k = "LockboxImmediateAddressHeader" -> LockboxImmediateAddressHeader
    [] k = "LockboxServiceRecord" -> LockboxServiceRecord
    [] k = "LockboxDetailHeader" -> LockboxDetailHeader
    [] k = "LockboxDetailRecord" -> LockboxDetailRecord
    [] k = "LockboxDetailOverflowRecord" -> LockboxDetailOverflowRecord
    [] k = "LockboxBatchTotalRecord" -> LockboxBatchTotalRecord
    [] k = "LockboxServiceTotalRecord" -> LockboxServiceTotalRecord
    [] k = "LockboxDestinationTrailerRecord" ->
         LockboxDestinationTrailerRecord
    [] OTHER -> <<>>

\* a dict that appended on every assignment would grow a second record_type
DictSetAppend(d, def) == Append(d, def)

\* d[def.name] = def on a dict kept as the sequence of its items: an
\* existing key keeps its place and takes the new value, a new key is
\* appended
DictSet(d, def) ==
  IF \E i \in 1..Len(d) : d[i].name = def.name
  THEN [i \in 1..Len(d) |-> IF d[i].name = def.name THEN def ELSE d[i]]
  ELSE Append(d, def)

\* the dict a literal evaluates to: a repeated key overwrites the earlier
\* value
RECURSIVE DictOf(_)
DictOf(items) ==
  IF items = <<>> THEN <<>>
  ELSE DictSet(DictOf(SubSeq(items, 1, Len(items) - 1)), items[Len(items)])

RecordTypeDef == FieldDef("record_type", 0, 1, Numeric)

\* the kinds that define a validate method
HasValidate(k) == k \in SchemaKinds \ {"LockboxServiceRecord"}

\* hasattr(self, name) answers True for class attributes as well
ClassAttrs(k) ==
  {"MAX_RECORD_LENGTH", "RECORD_TYPE_NUM", "raw_record_text", "children"}
    \cup (IF k \in SchemaKinds THEN {"fields"} ELSE {})
    \cup (IF HasValidate(k) THEN {"validate"} ELSE {})

HasAttr(k, a, name) == name \in DOMAIN a \/ name \in ClassAttrs(k)

RawName(name) == "_" \o name \o "_raw"

SetAttr(a, name, value) == (name :> value) @@ a

(***************************************************************************)
(* LockboxBaseRecord._parse: every field of the schema, in dict order.     *)
(***************************************************************************)
\* a _parse that stored the slice without raising on a class mismatch
ParseFieldUnchecked(k, line, a, def) ==
  LET raw_field == Slice(line, def.start, def.end) IN
  IF HasAttr(k, a, def.name)
  THEN [attrs |-> a,
        exc |-> Raise("AttributeError", "already_has_field", def.name)]
  ELSE [attrs |-> SetAttr(a, RawName(def.name), StrV(raw_field)),
        exc |-> NoExc]

\* one iteration of the loop of _parse, for the field definition def
ParseField(k, line, a, def) ==
  LET raw_field == Slice(line, def.start, def.end) IN
  IF HasAttr(k, a, def.name)
  THEN Result(a, Raise("AttributeError", "already_has_field", def.name))
  ELSE IF def.type \notin FieldTypes
  THEN Result(a, Raise("LockboxDefinitionError", "invalid_field_type",
                       def.name))
  ELSE IF ~Matches(def.type, Strip(raw_field))
  THEN Result(a, Raise("LockboxParseError", "field_type", def.name))
  ELSE Result(SetAttr(a, RawName(def.name), StrV(raw_field)), NoExc)

RECURSIVE ParseFrom(_, _, _, _, _)
ParseFrom(k, fs, line, i, a) ==
  IF i > Len(fs) THEN Result(a, NoExc)
  ELSE LET r == ParseField(k, line, a, fs[i]) IN
       IF r.exc # NoExc THEN r ELSE ParseFrom(k, fs, line, i + 1, r.attrs)

parse(k, fs, line, a) == ParseFrom(k, fs, line, 1, a)

(***************************************************************************)
(* _parse_as_date and _parse_as_time.                                      *)
(***************************************************************************)
IsLeap(y) == y % 4 = 0 /\ (y % 100 # 0 \/ y % 400 = 0)

DaysInMonth(y, m) ==
  IF m = 2 THEN (IF IsLeap(y) THEN 29 ELSE 28)
  ELSE IF m \in {4, 6, 9, 11} THEN 30 ELSE 31

\* datetime.date(y, m, d) accepts exactly these
ValidDate(y, m, d) ==
  /\ y \in 1..9999
  /\ m \in 1..12
  /\ d \in 1..DaysInMonth(y, m)

\* datetime.time(h, m) accepts exactly these
ValidTime(h, m) == h \in 0..23 /\ m \in 0..59

Converted(v, e) == [value |-> v, exc |-> e]

parse_as_date(k, a, field_name, mmddyy) ==
  LET raw_field_name == RawName(field_name) IN
  IF ~HasAttr(k, a, raw_field_name)
  THEN Converted(NoneV, Raise("AttributeError", "no_field", field_name))
  ELSE
    LET field_val == a[raw_field_name].s
        p1 == PyInt(Slice(field_val, 0, 2))
        p2 == PyInt(Slice(field_val, 2, 4))
        p3 == PyInt(Slice(field_val, 4, 6))
        y == IF mmddyy THEN p3.n + 2000 ELSE p1.n + 2000
        m == IF mmddyy THEN p1.n ELSE p2.n
        d == IF mmddyy THEN p2.n ELSE p3.n
    IN IF /\ Len(field_val) = 6
          /\ p1.ok /\ p2.ok /\ p3.ok
          /\ ValidDate(y, m, d)
       THEN Converted(DateV(y, m, d), NoExc)
       ELSE Converted(NoneV,
                      Raise("LockboxDefinitionError", "invalid_date",
                            field_name))

parse_as_time(k, a, field_name) ==
  LET raw_field_name == RawName(field_name) IN
  IF ~HasAttr(k, a, raw_field_name)
  THEN Converted(NoneV, Raise("AttributeError", "no_field", field_name))
  ELSE
    LET field_val == a[raw_field_name].s
        p1 == PyInt(Slice(field_val, 0, 2))
        p2 == PyInt(Slice(field_val, 2, 4))
    IN IF /\ Len(field_val) = 4
          /\ p1.ok /\ p2.ok
          /\ ValidTime(p1.n, p2.n)
       THEN Converted(TimeV(p1.n, p2.n), NoExc)
       ELSE Converted(NoneV,
                      Raise("LockboxDefinitionError", "invalid_time",
                            field_name))

(***************************************************************************)
(* The validate hooks, statement by statement.                             *)
(***************************************************************************)
\* self.<name> = int(self._<name>_raw)
AsInt(name) == [op |-> "int", name |-> name]

\* self.<name> = int(self._<name>_raw) / 100.0
AsHundredths(name) == [op |-> "hundredths", name |-> name]

\* self.<name> = self._parse_as_date('<name>')
AsDate(name) == [op |-> "date", name |-> name]

\* self.<name> = self._parse_as_time('<name>')
AsTime(name) == [op |-> "time", name |-> name]

\* if not self._<name>_raw.isnumeric(): self._<name>_raw = '0'
ZeroUnlessNumeric(name) == [op |-> "zero_unless_numeric", name |-> name]

\* if len(self._<name>_raw) == 0: self._<name>_raw = '0'
ZeroIfEmpty(name) == [op |-> "zero_if_empty", name |-> name]

ValidateImmediateAddressHeader ==
  << AsDate("processing_date"), AsTime("processing_time") >>

ValidateDetailHeader == << AsInt("batch_number") >>

ValidateDetailRecord ==
  << ZeroUnlessNumeric("batch_number"), AsInt("batch_number"),
     ZeroUnlessNumeric("item_number"),
     ZeroUnlessNumeric("check_amount"), AsHundredths("check_amount"),
     ZeroIfEmpty("check_number"), ZeroUnlessNumeric("check_number"),
     AsInt("check_number") >>

ValidateDetailOverflowRecord ==
  << AsInt("batch_number"), AsInt("item_number"),
     AsInt("overflow_record_type"), AsInt("overflow_sequence_number") >>

ValidateBatchTotalRecord ==
  << AsInt("batch_number"), AsInt("item_number"), AsDate("deposit_date"),
     AsInt("total_number_remittances"), AsHundredths("check_dollar_total") >>

ValidateServiceTotalRecord ==
  << AsInt("batch_number"), AsInt("item_number"), AsDate("deposit_date"),
     AsInt("total_num_checks"), AsHundredths("check_dollar_total") >>

ValidateDestinationTrailerRecord == << AsInt("total_num_records") >>

ValidateBody(k) ==
  CASE k = "LockboxImmediateAddressHeader" -> ValidateImmediateAddressHeader
    [] k = "LockboxDetailHeader" -> ValidateDetailHeader
    [] k = "LockboxDetailRecord" -> ValidateDetailRecord
    [] k = "LockboxDetailOverflowRecord" -> ValidateDetailOverflowRecord
    [] k = "LockboxBatchTotalRecord" -> ValidateBatchTotalRecord
    [] k = "LockboxServiceTotalRecord" -> ValidateServiceTotalRecord
    [] k = "LockboxDestinationTrailerRecord" ->
         ValidateDestinationTrailerRecord
    [] OTHER -> <<>>

\* one statement of a validate hook on the attributes a
Exec(k, a, st) ==
  LET raw == a[RawName(st.name)].s IN
  CASE st.op = "int" ->
         IF PyInt(raw).ok
         THEN Result(SetAttr(a, st.name, IntV(PyInt(raw).n)), NoExc)
         ELSE Result(a, Raise("ValueError", "invalid_literal", st.name))
    [] st.op = "hundredths" ->
         IF PyInt(raw).ok
         THEN Result(SetAttr(a, st.name, FloatV(PyInt(raw).n)), NoExc)
         ELSE Result(a, Raise("ValueError", "invalid_literal", st.name))
    [] st.op = "date" ->
         LET c == parse_as_date(k, a, st.name, FALSE) IN
         IF c.exc = NoExc
         THEN Result(SetAttr(a, st.name, c.value), NoExc)
         ELSE Result(a, c.exc)
    [] st.op = "time" ->
         LET c == parse_as_time(k, a, st.name) IN
         IF c.exc = NoExc
         THEN Result(SetAttr(a, st.name, c.value), NoExc)
         ELSE Result(a, c.exc)
    [] st.op = "zero_unless_numeric" ->
         IF ~IsNumeric(raw)
         THEN Result(SetAttr(a, RawName(st.name), StrV(<<"0">>)), NoExc)
         ELSE Result(a, NoExc)
    [] st.op = "zero_if_empty" ->
         IF Len(raw) = 0
         THEN Result(SetAttr(a, RawName(st.name), StrV(<<"0">>)), NoExc)
         ELSE Result(a, NoExc)

RECURSIVE ExecFrom(_, _, _, _)
ExecFrom(k, body, i, a) ==
  IF i > Len(body) THEN Result(a, NoExc)
  ELSE LET r == Exec(k, a, body[i]) IN
       IF r.exc # NoExc THEN r ELSE ExecFrom(k, body, i + 1, r.attrs)

validate(k, a) == ExecFrom(k, ValidateBody(k), 1, a)

(***************************************************************************)
(* The loop that ends __init__: every field without an attribute gets its  *)
(* raw value, a Blank field gets None.                                     *)
(***************************************************************************)
\* an exposure that treated Blank fields like every other field
ExposeFieldKeepBlank(k, a, def) ==
  IF HasAttr(k, a, def.name) THEN a
  ELSE SetAttr(a, def.name,
               IF HasAttr(k, a, RawName(def.name)) THEN a[RawName(def.name)]
               ELSE NoneV)

ExposeField(k, a, def) ==
  IF HasAttr(k, a, def.name) THEN a
  ELSE LET raw_field_name == RawName(def.name)
           raw_field_val ==
             IF def.type = Blank THEN NoneV
             ELSE IF HasAttr(k, a, raw_field_name) THEN a[raw_field_name]
             ELSE NoneV
       IN SetAttr(a, def.name, raw_field_val)

RECURSIVE ExposeFrom(_, _, _, _)
ExposeFrom(k, fs, i, a) ==
  IF i > Len(fs) THEN a
  ELSE ExposeFrom(k, fs, i + 1, ExposeField(k, a, fs[i]))

expose(k, fs, a) == ExposeFrom(k, fs, 1, a)

(***************************************************************************)
(* The lines the model constructs records from: for every kind a line that *)
(* fills every field of the schema, the same line with one field replaced  *)
(* by a sample text, with a second field made lower case, and cut or       *)
(* padded to another length.                                               *)
(***************************************************************************)
Spaces(n) == [i \in 1..n |-> " "]

Zeros(n) == [i \in 1..n |-> "0"]

Sample(c, j) == [c |-> c, j |-> j]

\* the sample as the text of a field w wide: cut to w characters, then
\* padded on the right (L), on the left (R) or with zeros on the left (Z)
Fit(sample, w) ==
  LET c == SubSeq(sample.c, 1, Min(w, Len(sample.c)))
      n == w - Len(c)
  IN CASE sample.j = "L" -> c \o Spaces(n)
       [] sample.j = "R" -> Spaces(n) \o c
       [] sample.j = "Z" -> Zeros(n) \o c

Overlay(line, start, text) ==
  [i \in 1..Len(line) |->
     IF i > start /\ i <= start + Len(text) THEN text[i - start] ELSE line[i]]

Resize(line, n) ==
  IF n <= Len(line) THEN SubSeq(line, 1, n)
  ELSE line \o Spaces(n - Len(line))

LowerCase == Sample(<<"a">>, "L")

GenericSamples ==
  { Sample(<<"1", "2">>, "Z"), Sample(<<"1", "2">>, "L"),
    Sample(<<"1", "2">>, "R"), Sample(<<>>, "L"),
    Sample(<<"A", "B", "C">>, "L"), LowerCase,
    Sample(<<"O", "'", "B">>, "L"), Sample(<<"%">>, "L"),
    Sample(<<"1", "_", "2">>, "L"), Sample(<<"-", "1", "2">>, "L"),
    Sample(<<"\t", "1", "2">>, "L") }

DateSamples ==
  { Sample(<<"2", "5", "0", "6", "1", "5">>, "L"),
    Sample(<<"2", "5", "1", "3", "0", "5">>, "L"),
    Sample(<<"2", "5", "0", "2", "3", "0">>, "L"),
    Sample(<<"2", "4", "0", "2", "2", "9">>, "L"),
    Sample(<<"0", "0", "0", "1", "0", "1">>, "L"),
    Sample(<<"9", "9", "1", "2", "3", "1">>, "L"),
    Sample(<<"-", "1", "0", "1", "0", "1">>, "L"),
    Sample(<<" ", "1", "0", "1", "0", "1">>, "L"),
    Sample(<<"2", "5", " ", "1", " ", "1">>, "L") }

TimeSamples ==
  { Sample(<<"1", "3", "4", "5">>, "L"),
    Sample(<<"2", "4", "6", "0">>, "L"),
    Sample(<<"1", "2", "6", "0">>, "L"),
    Sample(<<"2", "3", "5", "9">>, "L"),
    Sample(<<" ", "9", "3", "0">>, "L"),
    Sample(<<"-", "1", "0", "0">>, "L") }

DateFields == {"processing_date", "deposit_date"}

TimeFields == {"processing_time"}

TextFields == {"filler", "memo_line"}

SamplesFor(def) ==
  GenericSamples
    \cup (IF def.name \in DateFields THEN DateSamples ELSE {})
    \cup (IF def.name \in TimeFields THEN TimeSamples ELSE {})

\* the schema of kind k once __init__ has added record_type
Schemas ==
  [k \in SchemaKinds |-> DictSet(DictOf(FieldsLiteral(k)), RecordTypeDef)]

Schema(k) == Schemas[k]

SchemaDefs(k) ==
  IF k \in SchemaKinds THEN {Schema(k)[i] : i \in 1..Len(Schema(k))} ELSE {}

RecordTypeChar(k) ==
  CASE k = "LockboxImmediateAddressHeader" -> "1"
    [] k = "LockboxServiceRecord" -> "2"
    [] k = "LockboxDetailHeader" -> "5"
    [] k = "LockboxDetailRecord" -> "6"
    [] k = "LockboxDetailOverflowRecord" -> "4"
    [] k = "LockboxBatchTotalRecord" -> "7"
    [] k = "LockboxServiceTotalRecord" -> "8"
    [] k = "LockboxDestinationTrailerRecord" -> "9"
    [] OTHER -> "0"

\* a text that makes the field parse and validate
DefaultText(k, def) ==
  LET w == def.end - def.start IN
  IF def.name = "record_type" THEN <<RecordTypeChar(k)>>
  ELSE IF def.name \in DateFields
  THEN Fit(Sample(<<"2", "5", "0", "6", "1", "5">>, "L"), w)
  ELSE IF def.name \in TimeFields
  THEN Fit(Sample(<<"1", "3", "4", "5">>, "L"), w)
  ELSE IF def.type = Blank \/ def.name \in TextFields THEN Spaces(w)
  ELSE IF def.type = Alphanumeric
  THEN Fit(Sample(<<"A", "B", "C">>, "L"), w)
  ELSE Fit(Sample(<<"1", "2">>, "Z"), w)

NaturalLength(k) ==
  CHOOSE n \in 0..MAX_RECORD_LENGTH :
    /\ \A d \in SchemaDefs(k) : d.end <= n
    /\ \E d \in SchemaDefs(k) : d.end = n

RECURSIVE FillFrom(_, _, _)
FillFrom(k, i, line) ==
  IF i > Len(Schema(k)) THEN line
  ELSE FillFrom(k, i + 1,
                Overlay(line, Schema(k)[i].start,
                        DefaultText(k, Schema(k)[i])))

BaseLines ==
  [k \in Kinds |->
     IF k \in SchemaKinds THEN FillFrom(k, 1, Spaces(NaturalLength(k)))
     ELSE <<"0", "A", "B", "C">>]

BaseLine(k) == BaseLines[k]

EditField(line, def, sample) ==
  Overlay(line, def.start, Fit(sample, def.end - def.start))

SingleEdits(k) ==
  {BaseLine(k)}
    \cup {EditField(BaseLine(k), def, s) :
            <<def, s>> \in {p \in SchemaDefs(k) \X
                                   (GenericSamples \cup DateSamples
                                                   \cup TimeSamples) :
                              p[2] \in SamplesFor(p[1])}}

DoubleEdits(k) ==
  {EditField(l, def, LowerCase) : l \in SingleEdits(k), def \in SchemaDefs(k)}

Lengths == {0, 1, 18} \cup (MAX_RECORD_LENGTH..(MAX_RECORD_LENGTH + MaxOver))

Resized(k) == {Resize(l, n) : l \in SingleEdits(k), n \in Lengths}

AllLines ==
  [k \in Kinds |-> SingleEdits(k) \cup DoubleEdits(k) \cup Resized(k)]

Lines(k) == AllLines[k]

\* the few lines the sequences of constructions are made of
SeqLines(k) ==
  { BaseLine(k),
    EditField(BaseLine(k), RecordTypeDef, LowerCase),
    Resize(BaseLine(k), 18) }

(***************************************************************************)
(* The state machine: one construction is Call, Parse, Validate, Expose.   *)
(***************************************************************************)
Init ==
  /\ fields = [k \in SchemaKinds |-> DictOf(FieldsLiteral(k))]
  /\ pc = "idle"
  /\ kind = "LockboxBaseRecord"
  /\ arg = <<>>
  /\ raw_record_text = <<>>
  /\ attrs = <<>>
  /\ exc = NoExc
  /\ runs = 0
  /\ first = <<>>

\* a length test that rejected a line of exactly MAX_RECORD_LENGTH
TooLongInclusive(line) == Len(line) >= MAX_RECORD_LENGTH

\* the test that opens __init__
TooLong(line) == Len(line) > MAX_RECORD_LENGTH

\* __init__ up to the call of _parse
Call(k, line) ==
  /\ pc = "idle"
  /\ kind' = k
  /\ arg' = line
  /\ runs' = runs + 1
  /\ attrs' = <<>>
  /\ IF TooLong(line)
     THEN /\ exc' = Raise("LockboxParseError", "too_long", "")
          /\ pc' = "raised"
          /\ UNCHANGED <<raw_record_text, fields>>
     ELSE /\ raw_record_text' = line
          /\ exc' = NoExc
          /\ IF k \in DOMAIN fields
             THEN /\ fields' =
                       [fields EXCEPT ![k] = DictSet(@, RecordTypeDef)]
                  /\ pc' = "parse"
             ELSE /\ pc' = "done"
                  /\ UNCHANGED fields
  /\ UNCHANGED first

\* self._parse()
Parse ==
  /\ pc = "parse"
  /\ LET r == parse(kind, fields[kind], raw_record_text, attrs) IN
     /\ attrs' = r.attrs
     /\ exc' = r.exc
     /\ pc' = IF r.exc # NoExc THEN "raised"
              ELSE IF HasValidate(kind) THEN "validate"
              ELSE "expose"
  /\ UNCHANGED <<fields, kind, arg, raw_record_text, runs, first>>

\* self.validate()
Validate ==
  /\ pc = "validate"
  /\ LET r == validate(kind, attrs) IN
     /\ attrs' = r.attrs
     /\ exc' = r.exc
     /\ pc' = IF r.exc # NoExc THEN "raised" ELSE "expose"
  /\ UNCHANGED <<fields, kind, arg, raw_record_text, runs, first>>

\* the loop that creates the missing fields
Expose ==
  /\ pc = "expose"
  /\ attrs' = expose(kind, fields[kind], attrs)
  /\ pc' = "done"
  /\ UNCHANGED <<fields, kind, arg, raw_record_text, exc, runs, first>>

\* what the caller of the constructor gets
Outcome ==
  [exc |-> exc, attrs |-> IF pc = "done" THEN attrs ELSE <<>>]

\* the constructor has returned or raised; the caller goes on to the next
\* construction
Return ==
  /\ pc \in {"done", "raised"}
  /\ runs < MaxRuns
  /\ pc' = "idle"
  /\ first' = IF <<kind, arg>> \in DOMAIN first THEN first
              ELSE (<<kind, arg>> :> Outcome) @@ first
  /\ attrs' = <<>>
  /\ exc' = NoExc
  /\ raw_record_text' = <<>>
  /\ UNCHANGED <<fields, kind, arg, runs>>

Next ==
  \/ \E k \in Kinds : \E line \in Lines(k) : Call(k, line)
  \/ Parse
  \/ Validate
  \/ Expose

Spec == Init /\ [][Next]_vars

NextSeq ==
  \/ \E k \in Kinds : \E line \in SeqLines(k) : Call(k, line)
  \/ Parse
  \/ Validate
  \/ Expose
  \/ Return

SpecSeq == Init /\ [][NextSeq]_vars

(***************************************************************************)
(* What the properties speak about.                                        *)
(***************************************************************************)
Final == pc \in {"done", "raised"}

\* the schema of the record under construction
CurFields == IF kind \in DOMAIN fields THEN fields[kind] ELSE <<>>

CurDefs == {CurFields[i] : i \in 1..Len(CurFields)}

DefOf(name) == CHOOSE d \in CurDefs : d.name = name

\* raw_text[start:end] of the line given to the constructor
FieldSlice(def) == Slice(arg, def.start, def.end)

SliceOf(name) == FieldSlice(DefOf(name))

\* the class check of the code fails for the field
CodeMismatch(def) == ~Matches(def.type, Strip(FieldSlice(def)))

\* the character classes as the specification lists them
DeclaredAlphanumeric ==
  {" "} \cup UpperSet \cup DigitSet \cup {";", ":", ",", ".", "/", "(", ")", "-"}

DeclaredAlphanumericOrBlank ==
  {" "} \cup UpperSet \cup DigitSet
        \cup {";", "%", "#", ":", "'", ",", ".", "/", "_", "&", "(", ")", "-"}

InDeclaredClass(type, s) ==
  CASE type = Numeric -> s # <<>> /\ AllIn(s, DigitSet)
    [] type = Alphanumeric -> s # <<>> /\ AllIn(s, DeclaredAlphanumeric)
    [] type = Blank -> s = <<>>
    [] type = AlphanumericOrBlank ->
         s = <<>> \/ AllIn(s, DeclaredAlphanumericOrBlank)

DeclaredMismatch(def) == ~InDeclaredClass(def.type, Strip(FieldSlice(def)))

\* the fields a validate hook assigns a typed value to
TypedByValidate(k) ==
  {ValidateBody(k)[i].name :
     i \in {j \in 1..Len(ValidateBody(k)) :
              ValidateBody(k)[j].op \in {"int", "hundredths", "date", "time"}}}

(***************************************************************************)
(* C1.  A line of at most 160 characters with a field whose stripped slice *)
(* is outside the field's declared class makes the construction fail with  *)
(* a LockboxParseError (field-type mismatch) naming a mismatching field,   *)
(* and no record is produced.                                              *)
(***************************************************************************)
C1_MismatchIsParseError ==
  (/\ Final
   /\ Len(arg) <= 160
   /\ \E def \in CurDefs : DeclaredMismatch(def))
    => /\ pc = "raised"
       /\ exc.type = "LockboxParseError"
       /\ exc.what = "field_type"
       /\ \E def \in CurDefs : def.name = exc.field /\ DeclaredMismatch(def)

(***************************************************************************)
(* C2.  After a successful construction every field that is not Blank and  *)
(* that validate did not replace with a typed value is exposed as the      *)
(* stripped slice, and the raw value validate is handed for each field is  *)
(* the stripped slice as well.                                             *)
(***************************************************************************)
C2_ExposedTrimmed ==
  /\ pc = "done" =>
       \A def \in CurDefs :
         (def.type # Blank /\ def.name \notin TypedByValidate(kind))
           => attrs[def.name] = StrV(Strip(FieldSlice(def)))
  /\ pc = "validate" =>
       \A def \in CurDefs :
         attrs[RawName(def.name)] = StrV(Strip(FieldSlice(def)))

(***************************************************************************)
(* C3.  Every LockboxDetailRecord line that passes the class check is      *)
(* constructed, and batch_number, item_number, check_amount, check_number  *)
(* are numbers: the value of the stripped slice when it is all digits,     *)
(* and 0 otherwise; check_amount is that number of cents over 100.         *)
(***************************************************************************)
LenientValue(name) ==
  IF IsNumeric(Strip(SliceOf(name)))
  THEN DigitsValue(Strip(SliceOf(name)))
  ELSE 0

C3_DetailRecordLenient ==
  (/\ kind = "LockboxDetailRecord"
   /\ Final
   /\ Len(arg) <= 160
   /\ \A def \in CurDefs : ~CodeMismatch(def))
    => /\ pc = "done"
       /\ attrs["batch_number"] = IntV(LenientValue("batch_number"))
       /\ attrs["item_number"] = IntV(LenientValue("item_number"))
       /\ attrs["check_amount"] = FloatV(LenientValue("check_amount"))
       /\ attrs["check_number"] = IntV(LenientValue("check_number"))

(***************************************************************************)
(* C4.  In the kinds whose integer fields have no fallback, a line that    *)
(* passes the class check but holds no integer in one of these fields      *)
(* fails with a LockboxDefinitionError; and every failure of a             *)
(* construction is a LockboxParseError or a LockboxDefinitionError.        *)
(***************************************************************************)
NoFallbackFields(k) ==
  CASE k = "LockboxDetailHeader" -> {"batch_number"}
    [] k = "LockboxDetailOverflowRecord" ->
         {"batch_number", "item_number", "overflow_record_type",
          "overflow_sequence_number"}
    [] k = "LockboxBatchTotalRecord" ->
         {"batch_number", "item_number", "total_number_remittances"}
    [] OTHER -> {}

C4_HardIntegerIsDefinitionError ==
  /\ (/\ Final
      /\ Len(arg) <= 160
      /\ \A def \in CurDefs : ~CodeMismatch(def)
      /\ \E name \in NoFallbackFields(kind) : ~PyInt(SliceOf(name)).ok)
       => (pc = "raised" /\ exc.type = "LockboxDefinitionError")
  /\ pc = "raised" =>
       exc.type \in {"LockboxParseError", "LockboxDefinitionError"}

(***************************************************************************)
(* C7.  Date decoding succeeds only on a raw value of exactly six digits,  *)
(* the year is then 2000 + YY, within 2000..2099, month and day come from  *)
(* the digit positions; every other raw value fails with a                 *)
(* LockboxDefinitionError.                                                 *)
(***************************************************************************)
DateKinds ==
  {"LockboxImmediateAddressHeader", "LockboxBatchTotalRecord",
   "LockboxServiceTotalRecord"}

DateField(k) ==
  IF k = "LockboxImmediateAddressHeader" THEN "processing_date"
  ELSE "deposit_date"

\* the statements of validate that precede the date decoding succeed
DateDecodingReached ==
  /\ kind \in DateKinds
  /\ pc \in {"expose", "done", "raised"}
  /\ Len(arg) <= 160
  /\ \A def \in CurDefs : ~CodeMismatch(def)
  /\ kind # "LockboxImmediateAddressHeader" =>
       PyInt(SliceOf("batch_number")).ok /\ PyInt(SliceOf("item_number")).ok

SixDigits(s) == Len(s) = 6 /\ AllIn(s, DigitSet)

C7_DateDecoding ==
  DateDecodingReached =>
    LET raw == attrs[RawName(DateField(kind))].s IN
    IF DateField(kind) \in DOMAIN attrs
    THEN /\ SixDigits(raw)
         /\ attrs[DateField(kind)].year \in 2000..2099
         /\ attrs[DateField(kind)] =
              DateV(2000 + DigitsValue(SubSeq(raw, 1, 2)),
                    DigitsValue(SubSeq(raw, 3, 4)),
                    DigitsValue(SubSeq(raw, 5, 6)))
    ELSE /\ pc = "raised"
         /\ exc.type = "LockboxDefinitionError"
         /\ exc.field = DateField(kind)

(***************************************************************************)
(* C9.  A kind whose schema repeats a field name fails every construction  *)
(* from a line of at most 160 characters with a LockboxDefinitionError     *)
(* (duplicate field), before any text is sliced or checked: no ParseError  *)
(* is reported instead and no definition is silently overwritten.          *)
(***************************************************************************)
RepeatsAName(items) ==
  \E i, j \in 1..Len(items) : i # j /\ items[i].name = items[j].name

C9_DuplicateFieldRejected ==
  (/\ Final
   /\ Len(arg) <= 160
   /\ RepeatsAName(FieldsLiteral(kind)))
    => /\ pc = "raised"
       /\ exc.type = "LockboxDefinitionError"
       /\ exc.what = "duplicate_field"

(***************************************************************************)
(* C5.  After every successful construction every Blank field of the       *)
(* schema is exposed as None and every other field, record_type included,  *)
(* is exposed as a value that is not None.                                 *)
(***************************************************************************)
C5_BlankIsNoneOthersAreNot ==
  (pc = "done" /\ kind \in DOMAIN fields) =>
    /\ \E def \in CurDefs : def.name = "record_type"
    /\ \A def \in CurDefs :
         /\ def.name \in DOMAIN attrs
         /\ def.type = Blank => attrs[def.name] = NoneV
         /\ def.type # Blank => attrs[def.name] # NoneV

\* a record with a Blank field, constructed
C5_Witness ==
  /\ pc = "done"
  /\ \E def \in CurDefs :
       /\ def.type = Blank
       /\ def.name \in DOMAIN attrs
       /\ attrs[def.name] = NoneV
       /\ RawName(def.name) \in DOMAIN attrs
  /\ \E def \in CurDefs :
       /\ def.type = AlphanumericOrBlank
       /\ def.name \in DOMAIN attrs
       /\ attrs[def.name] = StrV(FieldSlice(def))

(***************************************************************************)
(* C6.  A line longer than 160 characters fails with the too-long          *)
(* LockboxParseError for every kind, the kind without a schema included,   *)
(* whatever the line holds and before any other error; a line of exactly   *)
(* 160 characters is never rejected for its length.                        *)
(***************************************************************************)
C6_TooLongFirst ==
  pc # "idle" =>
    /\ Len(arg) > 160 =>
         /\ pc = "raised"
         /\ exc = Raise("LockboxParseError", "too_long", "")
         /\ attrs = <<>>
    /\ Len(arg) <= 160 => exc.what # "too_long"

\* a line of 161 characters with a field outside its class, rejected for
\* its length
C6_Witness ==
  /\ pc = "raised"
  /\ Len(arg) = 161
  /\ exc.what = "too_long"
  /\ \E def \in CurDefs : CodeMismatch(def)

(***************************************************************************)
(* C10.  validate starts only after the class check has passed for every   *)
(* field of the schema, the exposure of the remaining fields only after    *)
(* validate has returned; a line with a class mismatch and a semantically  *)
(* invalid value fails with the LockboxParseError, and nothing runs after  *)
(* a failure.                                                              *)
(***************************************************************************)
ClassCheckPassed ==
  \A def \in CurDefs :
    /\ ~CodeMismatch(def)
    /\ RawName(def.name) \in DOMAIN attrs

TwoPhaseState ==
  /\ pc \in {"validate", "expose", "done"} => ClassCheckPassed
  /\ pc \in {"expose", "done"} =>
       \A name \in TypedByValidate(kind) :
         name \in DOMAIN attrs /\ attrs[name].t # "str"
  /\ (Final /\ Len(arg) <= 160 /\ \E def \in CurDefs : CodeMismatch(def))
       => (pc = "raised" /\ exc.type = "LockboxParseError")

TwoPhaseStep ==
  /\ pc' = "validate" => pc = "parse"
  /\ pc' = "expose" =>
       \/ pc = "validate"
       \/ pc = "parse" /\ ~HasValidate(kind)
  /\ pc = "raised" => pc' \in {"raised", "idle"}

C10_TwoPhase == []TwoPhaseState /\ [][TwoPhaseStep]_vars

\* a batch total line whose deposit date has month 13 and whose other
\* field is lower case: the ParseError wins
C10_Witness ==
  /\ pc = "raised"
  /\ exc.type = "LockboxParseError"
  /\ kind = "LockboxBatchTotalRecord"
  /\ SliceOf("deposit_date") = <<"2", "5", "1", "3", "0", "5">>
  /\ exc.field # "deposit_date"

(***************************************************************************)
(* C8.  Constructions carry no hidden state: in any sequence of            *)
(* constructions, failed ones included, a kind constructed from a line     *)
(* gives the outcome its first construction gave, and the schema of a kind *)
(* does not change once record_type is in it.                              *)
(***************************************************************************)
HasRecordType(k) ==
  \E i \in 1..Len(fields[k]) : fields[k][i].name = "record_type"

SameAsFirst ==
  (Final /\ <<kind, arg>> \in DOMAIN first) => Outcome = first[<<kind, arg>>]

SchemaStable ==
  \A k \in DOMAIN fields : HasRecordType(k) => fields'[k] = fields[k]

C8_NoHiddenState == []SameAsFirst /\ [][SchemaStable]_vars

\* the second construction of a line has produced a record
C8_Witness ==
  /\ pc = "done"
  /\ runs > 1
  /\ kind \in DOMAIN fields
  /\ <<kind, arg>> \in DOMAIN first
  /\ first[<<kind, arg>>].attrs = attrs

====
